---------------------------- MODULE Spec2Model ----------------------------
(***************************************************************************)
(* Pharmacy claims pipeline (src/src/*.py): record validation, per-file    *)
(* loading, cross-reference filtering, deduplication, the metrics          *)
(* aggregator and the two pandas reports.                                  *)
(*                                                                         *)
(* Python values are modelled as tagged records [k, s, m]:                 *)
(*   k  the Python type ("str", "int", "float", "none", "datetime"),       *)
(*   s  the text of a str (or of the str a datetime was parsed from),      *)
(*   m  the value of an int or float in thousandths (10 -> 10000,          *)
(*      12.345 -> 12345), so that sub-cent prices and non-integral         *)
(*      quantities are representable with integers.                        *)
(* A dict is a function from its keys to such values; a key the dict does  *)
(* not have is not in the function's DOMAIN.                               *)
(***************************************************************************)
EXTENDS Integers, Sequences, FiniteSets, TLC

VARIABLES
    pc,               \* position of the run of the specification at hand
    data,             \* validate_claim_record: the dict under validation
    record,           \* validate_revert_record: the dict under validation
    records,          \* process_file: what json.load gave for the file
    result,           \* the value returned by the function that was called
    folders,          \* main: what each input directory is on disk
    pharmacies_csv,   \* main: the rows of the pharmacy CSV files
    claims_files,     \* main: the parsed content of each claims file
    reverts_files,    \* main: the parsed content of each reverts file
    todo,             \* loaders: the futures as_completed has not yielded yet
    pharmacies_data,  \* main: pharmacies_data
    claims_data,      \* main: claims_data
    reverts_data,     \* main: reverts_data
    unique_claims,    \* main: unique_claims
    metrics,          \* main: metrics
    output_file       \* main: the content of metrics.json

vars == <<pc, data, record, records, result, folders, pharmacies_csv, claims_files,
          reverts_files, todo, pharmacies_data, claims_data, reverts_data,
          unique_claims, metrics, output_file>>

---------------------------------------------------------------------------
(* Python values *)

PyStr(x)   == [k |-> "str",   s |-> x,  m |-> 0]
PyInt(n)   == [k |-> "int",   s |-> "", m |-> n * 1000]
PyFloat(t) == [k |-> "float", s |-> "", m |-> t]
PyNone     == [k |-> "none",  s |-> "", m |-> 0]
PyDateTime(x) == [k |-> "datetime", s |-> x, m |-> 0]

\* a value no record ever holds, used for the variables a specification leaves idle
Idle == [k |-> "idle", s |-> "", m |-> 0]

IsNumber(v) == v.k \in {"int", "float"}

---------------------------------------------------------------------------
(* utils.py: field validators *)

\* The strings uuid.UUID() parses: it strips "urn:", "uuid:", braces and
\* hyphens and wants 32 hex digits, so the un-hyphenated and the braced forms
\* parse as well as the canonical one.
CanonicalUuids == {"11111111-1111-4111-8111-111111111111",
                   "22222222-2222-4222-8222-222222222222",
                   "33333333-3333-4333-8333-333333333333",
                   "44444444-4444-4444-8444-444444444444"}
LooseUuids == {"11111111111141118111111111111111",
               "{22222222-2222-4222-8222-222222222222}"}
\* strings uuid.UUID() rejects with ValueError
MalformedIds == {"claim-1", "claim-2", ""}

\* is_valid_uuid: "True", "False", or "raise" when UUID() fails with something
\* other than ValueError (a non-str argument: AttributeError / TypeError)
is_valid_uuid(value) ==
    IF value.k # "str" THEN "raise"
    ELSE IF value.s \in (CanonicalUuids \cup LooseUuids) THEN "True"
    ELSE "False"

\* The strings datetime.strptime(s, "%Y-%m-%dT%H:%M:%S") parses: the padded
\* form and also the form with unpadded fields.
PaddedStamp   == "2024-01-05T03:04:05"
UnpaddedStamp == "2024-1-5T3:4:5"
OffsetStamp   == "2024-01-05T03:04:05Z"
StrptimeParses == {PaddedStamp, UnpaddedStamp}
\* The strings datetime.fromisoformat parses (Python 3.11): padded fields
\* only, a trailing offset allowed.
FromIsoParses == {PaddedStamp, OffsetStamp}

\* is_valid_timestamp: strptime raises TypeError, not ValueError, on a non-str
is_valid_timestamp(value) ==
    IF value.k # "str" THEN "raise"
    ELSE IF value.s \in StrptimeParses THEN "True"
    ELSE "False"

---------------------------------------------------------------------------
(* load_and_clean_claims.py: validate_claim_record *)

\* the schema dict of load_and_validate_json_data, in insertion order
claims_schema ==
    << [key |-> "id",        type |-> "str"],
       [key |-> "ndc",       type |-> "str"],
       [key |-> "npi",       type |-> "str"],
       [key |-> "quantity",  type |-> "int"],
       [key |-> "price",     type |-> "float"],
       [key |-> "timestamp", type |-> "timestamp"] >>

\* one iteration of the loop over schema.items(): "ok" (go on to the next
\* key), "False" (logged and returned False) or "raise"
CheckClaimField(d, key, expected_type) ==
    IF key \notin DOMAIN d THEN "False"
    ELSE LET value == d[key] IN
         IF expected_type = "timestamp" THEN
              LET t == is_valid_timestamp(value) IN
              IF t = "True" THEN "ok" ELSE t
         ELSE IF key = "price" /\ ~IsNumber(value) THEN "raise"   \* value < 0: TypeError
         ELSE IF key = "price" /\ value.m < 0 THEN "False"
         ELSE IF expected_type = "int" THEN
              IF ~(value.k = "int" \/ (value.k = "float" /\ value.m % 1000 = 0))
              THEN "False"
              ELSE IF key = "quantity" /\ value.m <= 0 THEN "False"
              ELSE "ok"
         ELSE IF value.k # expected_type THEN "False"
         ELSE "ok"

RECURSIVE ValidateFrom(_, _, _)
ValidateFrom(d, schema, i) ==
    IF i > Len(schema) THEN "True"
    ELSE LET r == CheckClaimField(d, schema[i].key, schema[i].type) IN
         IF r = "ok" THEN ValidateFrom(d, schema, i + 1) ELSE r

validate_claim_record(d, schema) == ValidateFrom(d, schema, 1)

---------------------------------------------------------------------------
(* load_and_clean_reverts.py: validate_revert_record *)

required_fields == {"id", "claim_id", "timestamp"}

\* the whole body is inside try/except Exception: whatever a field check
\* raises is logged and turned into False
validate_revert_record(r) ==
    IF ~(required_fields \subseteq DOMAIN r) THEN "False"
    ELSE IF is_valid_uuid(r["id"]) # "True" THEN "False"
    ELSE IF is_valid_uuid(r["claim_id"]) # "True" THEN "False"
    ELSE IF is_valid_timestamp(r["timestamp"]) # "True" THEN "False"
    ELSE "True"

---------------------------------------------------------------------------
(* load_and_clean_claims.py / load_and_clean_reverts.py: process_file *)

\* What open() + json.load() gave: [json |-> "list", items |-> the records],
\* [json |-> "dict", items |-> <<the one record>>] (wrapped into a list by the
\* isinstance(records, dict) branch) or [json |-> "invalid", items |-> <<>>]
\* (JSONDecodeError / OSError, caught by the except clause).
JsonList(xs) == [json |-> "list", items |-> xs]
JsonDict(d)  == [json |-> "dict", items |-> <<d>>]
JsonInvalid  == [json |-> "invalid", items |-> <<>>]

\* record['timestamp'] = datetime.fromisoformat(record['timestamp'])
ConvertTimestamp(r) == [r EXCEPT !["timestamp"] = PyDateTime(@.s)]

\* The for loop of process_file (claims). The try block encloses the loop, so
\* an exception out of the validator or out of fromisoformat ends the loop and
\* the function returns what it had appended so far.
RECURSIVE ClaimsLoop(_, _, _)
ClaimsLoop(recs, i, acc) ==
    IF i > Len(recs) THEN acc
    ELSE LET v == validate_claim_record(recs[i], claims_schema) IN
         IF v = "raise" THEN acc
         ELSE IF v = "False" THEN ClaimsLoop(recs, i + 1, acc)
         ELSE IF recs[i]["timestamp"].s \notin FromIsoParses THEN acc
         ELSE ClaimsLoop(recs, i + 1, Append(acc, ConvertTimestamp(recs[i])))

process_file_claims(file) ==
    IF file.json = "invalid" THEN <<>> ELSE ClaimsLoop(file.items, 1, <<>>)

\* The for loop of process_file (reverts): the validator never raises, but
\* fromisoformat can.
RECURSIVE RevertsLoop(_, _, _)
RevertsLoop(recs, i, acc) ==
    IF i > Len(recs) THEN acc
    ELSE IF validate_revert_record(recs[i]) # "True" THEN RevertsLoop(recs, i + 1, acc)
    ELSE IF recs[i]["timestamp"].s \notin FromIsoParses THEN acc
    ELSE RevertsLoop(recs, i + 1, Append(acc, ConvertTimestamp(recs[i])))

process_file_reverts(file) ==
    IF file.json = "invalid" THEN <<>> ELSE RevertsLoop(file.items, 1, <<>>)

---------------------------------------------------------------------------
(* utils.py: cross-reference filters and the deduplicator *)

\* Python ==: values of different types (a str and a dict) are unequal
PyEq(a, b) == DOMAIN a = DOMAIN b /\ a = b

\* x in xs, for a list xs
PyIn(x, xs) == \E i \in 1..Len(xs) : PyEq(x, xs[i])

\* dict.get(key): None when the key is missing
Get(d, key) == IF key \in DOMAIN d THEN d[key] ELSE PyNone

filter_claims_by_pharmacies(cs, ps) ==
    LET valid_npis == {ps[i]["npi"] : i \in 1..Len(ps)}
        Keep(claim) == claim["npi"] \in valid_npis
    IN  SelectSeq(cs, Keep)

\* filter_reverts_by_claims looking up the revert's own id
filter_reverts_by_revert_id(rs, cs) ==
    LET valid_claim_ids == {cs[i]["id"] : i \in 1..Len(cs)}
        Keep(revert) == revert["id"] \in valid_claim_ids
    IN  SelectSeq(rs, Keep)

filter_reverts_by_claims(rs, cs) ==
    LET valid_claim_ids == {cs[i]["id"] : i \in 1..Len(cs)}
        Keep(revert) == revert["claim_id"] \in valid_claim_ids
    IN  SelectSeq(rs, Keep)

\* DedupFrom without seen_ids.add(claim_id): no id is ever seen
RECURSIVE DedupFromNoAdd(_, _, _, _)
DedupFromNoAdd(cs, i, seen_ids, unique) ==
    IF i > Len(cs) THEN unique
    ELSE LET claim_id == Get(cs[i], "id") IN
         IF claim_id \notin seen_ids
         THEN DedupFromNoAdd(cs, i + 1, seen_ids, Append(unique, cs[i]))
         ELSE DedupFromNoAdd(cs, i + 1, seen_ids, unique)

\* the loop of remove_duplicate_claims from position i on, with the ids seen
\* and the claims kept so far
RECURSIVE DedupFrom(_, _, _, _)
DedupFrom(cs, i, seen_ids, unique) ==
    IF i > Len(cs) THEN unique
    ELSE LET claim_id == Get(cs[i], "id") IN
         IF claim_id \notin seen_ids
         THEN DedupFrom(cs, i + 1, seen_ids \cup {claim_id}, Append(unique, cs[i]))
         ELSE DedupFrom(cs, i + 1, seen_ids, unique)

remove_duplicate_claims(cs) == DedupFrom(cs, 1, {}, <<>>)

---------------------------------------------------------------------------
(* analytics.py: calculate_metrics *)

\* Money is in thousandths. round(x, 2) of the rational n / d thousandths
\* (n >= 0, d > 0): the nearest multiple of 10. When n / d lies exactly
\* between two cents the float that stands for it is a hair above or below,
\* and round() follows the float: both neighbours are possible outcomes.
Round2(n, d) ==
    LET lo  == (n \div (10 * d)) * 10
        rem == n - lo * d
    IN  IF 2 * rem < 10 * d THEN {lo}
        ELSE IF 2 * rem > 10 * d THEN {lo + 10}
        ELSE {lo, lo + 10}

\* the keys of the defaultdict in insertion order: (npi, ndc) of each claim,
\* first occurrence only
RECURSIVE MetricKeysFrom(_, _, _)
MetricKeysFrom(cs, i, keys) ==
    IF i > Len(cs) THEN keys
    ELSE LET key == <<cs[i]["npi"], cs[i]["ndc"]>> IN
         IF \E j \in 1..Len(keys) : keys[j] = key
         THEN MetricKeysFrom(cs, i + 1, keys)
         ELSE MetricKeysFrom(cs, i + 1, Append(keys, key))

\* ClaimsOfKey with the provider alone as the key
ClaimsOfNpi(cs, key) ==
    LET Has(claim) == claim["npi"] = key[1]
    IN  SelectSeq(cs, Has)

\* the claims the loop adds to metrics[key], in order
ClaimsOfKey(cs, key) ==
    LET Has(claim) == <<claim["npi"], claim["ndc"]>> = key
    IN  SelectSeq(cs, Has)

\* claim['quantity'] of a validated claim: a whole number, int or float
Qty(claim) == claim["quantity"].m \div 1000

RECURSIVE SumPrice(_, _)
SumPrice(cs, i) == IF i = 0 THEN 0 ELSE SumPrice(cs, i - 1) + cs[i]["price"].m

RECURSIVE ProdQty(_, _)
ProdQty(cs, i) == IF i = 0 THEN 1 ELSE ProdQty(cs, i - 1) * Qty(cs[i])

\* sum of price / quantity over cs[1..i], as a numerator over ProdQty(cs, Len(cs))
RECURSIVE SumUnitNum(_, _)
SumUnitNum(cs, i) ==
    IF i = 0 THEN 0
    ELSE SumUnitNum(cs, i - 1)
         + cs[i]["price"].m * (ProdQty(cs, Len(cs)) \div Qty(cs[i]))

\* number of claims of cs whose id is `in reverts`
RECURSIVE CountReverted(_, _, _)
CountReverted(cs, i, rs) ==
    IF i = 0 THEN 0
    ELSE CountReverted(cs, i - 1, rs) + (IF PyIn(cs[i]["id"], rs) THEN 1 ELSE 0)

\* the records `results` can hold for one key (one, unless a rounding is a tie)
MetricRecords(cs, rs, key) ==
    LET g == ClaimsOfKey(cs, key)
        n == Len(g)
    IN  { [npi |-> key[1], ndc |-> key[2],
           fills |-> n,
           reverted |-> CountReverted(g, n, rs),
           avg_price |-> a,
           total_price |-> t] :
          a \in Round2(SumUnitNum(g, n), n * ProdQty(g, n)),
          t \in Round2(SumPrice(g, n), 1) }

RECURSIVE FormatResults(_, _, _, _)
FormatResults(cs, rs, keys, i) ==
    IF i = 0 THEN {<<>>}
    ELSE { Append(res, rec) : res \in FormatResults(cs, rs, keys, i - 1),
                              rec \in MetricRecords(cs, rs, keys[i]) }

\* the lists calculate_metrics can return (they differ in tie roundings only)
calculate_metrics(cs, rs) ==
    LET keys == MetricKeysFrom(cs, 1, <<>>)
    IN  FormatResults(cs, rs, keys, Len(keys))

---------------------------------------------------------------------------
(* analytics.py: the pandas reports *)

\* Python's order on the strings the reports sort by (drug codes and chain
\* names): lexicographic, listed here in ascending order.
StrOrder == <<"00000000011", "00000000022", "alpha", "beta", "gamma">>
Rank(x) == CHOOSE i \in 1..Len(StrOrder) : StrOrder[i] = x
StrLess(a, b) == Rank(a) < Rank(b)

\* a finite set of strings as an ascending list (the order of groupby keys)
RECURSIVE SortedStrs(_)
SortedStrs(S) ==
    IF S = {} THEN <<>>
    ELSE LET least == CHOOSE x \in S : \A y \in S \ {x} : StrLess(x, y)
         IN  <<least>> \o SortedStrs(S \ {least})

\* claims_df.merge(pharmacies_df, left_on='npi', right_on='npi'): the inner
\* join, one row per (claim row, pharmacy row) pair with equal npi
RECURSIVE MergeRow(_, _, _)
MergeRow(claim, ps, j) ==
    IF j > Len(ps) THEN <<>>
    ELSE (IF ps[j]["npi"] = claim["npi"]
          THEN << [ndc |-> claim["ndc"].s, chain |-> ps[j]["chain"].s,
                   price |-> claim["price"].m, quantity |-> Qty(claim)] >>
          ELSE <<>>) \o MergeRow(claim, ps, j + 1)

RECURSIVE Merge(_, _, _)
Merge(cs, ps, i) ==
    IF i > Len(cs) THEN <<>>
    ELSE MergeRow(cs[i], ps, 1) \o Merge(cs, ps, i + 1)

\* the rows of one (ndc, chain) group
GroupRows(merged, ndc, chain) ==
    LET Has(r) == r.ndc = ndc /\ r.chain = chain IN SelectSeq(merged, Has)

RECURSIVE RowProdQty(_, _)
RowProdQty(rows, i) == IF i = 0 THEN 1 ELSE RowProdQty(rows, i - 1) * rows[i].quantity

RECURSIVE RowSumUnit(_, _)
RowSumUnit(rows, i) ==
    IF i = 0 THEN 0
    ELSE RowSumUnit(rows, i - 1)
         + rows[i].price * (RowProdQty(rows, Len(rows)) \div rows[i].quantity)

\* groupby(['ndc', 'chain'])['unit_price'].mean() of one group, as the exact
\* fraction num / den (thousandths)
GroupMean(merged, ndc, chain) ==
    LET rows == GroupRows(merged, ndc, chain)
        n    == Len(rows)
    IN  [chain |-> chain, num |-> RowSumUnit(rows, n), den |-> n * RowProdQty(rows, n)]

\* MeanLess with the comparison turned round (a descending sort)
MeanGreater(a, b) == b.num * a.den < a.num * b.den

MeanLess(a, b) == a.num * b.den < b.num * a.den

\* InsertByMean placing a row before the rows of equal mean (a sort that
\* reverses ties)
RECURSIVE InsertByMeanBeforeEqual(_, _)
InsertByMeanBeforeEqual(sorted, x) ==
    IF sorted = <<>> THEN <<x>>
    ELSE IF ~MeanLess(sorted[Len(sorted)], x)
         THEN Append(InsertByMeanBeforeEqual(SubSeq(sorted, 1, Len(sorted) - 1), x),
                     sorted[Len(sorted)])
         ELSE Append(sorted, x)

\* sort_values(['ndc', 'unit_price']) within one ndc: a stable sort (lexsort)
\* of the rows, which groupby left in ascending chain order
RECURSIVE InsertByMean(_, _)
InsertByMean(sorted, x) ==
    IF sorted = <<>> THEN <<x>>
    ELSE IF MeanLess(x, sorted[Len(sorted)])
         THEN Append(InsertByMean(SubSeq(sorted, 1, Len(sorted) - 1), x),
                     sorted[Len(sorted)])
         ELSE Append(sorted, x)

RECURSIVE SortByMean(_, _)
SortByMean(rows, i) ==
    IF i = 0 THEN <<>> ELSE InsertByMean(SortByMean(rows, i - 1), rows[i])

\* .head(n) of one group
head(xs, n) == SubSeq(xs, 1, IF Len(xs) < n THEN Len(xs) ELSE n)

\* number of chains kept per drug: .head(2)
TopChains == 2

\* the rows of avg_prices for one ndc after sort_values and head(2)
DrugTop(merged, ndc) ==
    LET chains == SortedStrs({merged[i].chain : i \in {j \in 1..Len(merged) : merged[j].ndc = ndc}})
        means  == [i \in 1..Len(chains) |-> GroupMean(merged, ndc, chains[i])]
    IN  head(SortByMean(means, Len(means)), TopChains)

\* the lists the lambda can build from the kept rows: name and rounded mean
RECURSIVE ChainEntries(_, _)
ChainEntries(top, i) ==
    IF i = 0 THEN {<<>>}
    ELSE { Append(xs, [name |-> top[i].chain, avg_price |-> a]) :
           xs \in ChainEntries(top, i - 1), a \in Round2(top[i].num, top[i].den) }

RECURSIVE Recommendations(_, _, _)
Recommendations(merged, ndcs, i) ==
    IF i = 0 THEN {<<>>}
    ELSE LET top == DrugTop(merged, ndcs[i]) IN
         { Append(rs, [ndc |-> ndcs[i], chain |-> e]) :
           rs \in Recommendations(merged, ndcs, i - 1),
           e \in ChainEntries(top, Len(top)) }

\* the lists get_chain_recommendations can return (they differ in tie
\* roundings of avg_price only)
get_chain_recommendations(claims_df, pharmacies_df) ==
    LET merged == Merge(claims_df, pharmacies_df, 1)
        ndcs   == SortedStrs({merged[i].ndc : i \in 1..Len(merged)})
    IN  Recommendations(merged, ndcs, Len(ndcs))

\* value_counts() of one drug: the distinct quantities with their counts
QuantityCount(claims_df, ndc, q) ==
    Cardinality({i \in 1..Len(claims_df) :
                    claims_df[i]["ndc"].s = ndc /\ Qty(claims_df[i]) = q})

\* ByCount in ascending order of count
RECURSIVE ByCountAscending(_, _, _)
ByCountAscending(claims_df, ndc, Q) ==
    IF Q = {} THEN <<>>
    ELSE LET first == CHOOSE q \in Q : \A r \in Q \ {q} :
                        \/ QuantityCount(claims_df, ndc, q) < QuantityCount(claims_df, ndc, r)
                        \/ /\ QuantityCount(claims_df, ndc, q) = QuantityCount(claims_df, ndc, r)
                           /\ q < r
         IN  <<first>> \o ByCountAscending(claims_df, ndc, Q \ {first})

\* ... in descending order of count; equal counts stay in ascending order of
\* the quantity (value_counts sorts the values, then the counts, stably)
RECURSIVE ByCount(_, _, _)
ByCount(claims_df, ndc, Q) ==
    IF Q = {} THEN <<>>
    ELSE LET first == CHOOSE q \in Q : \A r \in Q \ {q} :
                        \/ QuantityCount(claims_df, ndc, q) > QuantityCount(claims_df, ndc, r)
                        \/ /\ QuantityCount(claims_df, ndc, q) = QuantityCount(claims_df, ndc, r)
                           /\ q < r
         IN  <<first>> \o ByCount(claims_df, ndc, Q \ {first})

\* number of quantities kept per drug: .head(5)
TopQuantities == 5

analyze_quantities(claims_df) ==
    LET ndcs == SortedStrs({claims_df[i]["ndc"].s : i \in 1..Len(claims_df)})
        QuantitiesOf(ndc) == {Qty(claims_df[i]) :
                                i \in {j \in 1..Len(claims_df) : claims_df[j]["ndc"].s = ndc}}
    IN  [i \in 1..Len(ndcs) |->
            [ndc |-> ndcs[i],
             most_prescribed_quantity |->
                 head(ByCount(claims_df, ndcs[i], QuantitiesOf(ndcs[i])), TopQuantities)]]

---------------------------------------------------------------------------
(* load_and_clean_pharmacies.py *)

\* the loop over the rows of the CSV files: rows equal in every column are
\* kept once
RECURSIVE CleanFrom(_, _, _, _)
CleanFrom(rows, i, seen, out) ==
    IF i > Len(rows) THEN out
    ELSE IF rows[i] \in seen THEN CleanFrom(rows, i + 1, seen, out)
    ELSE CleanFrom(rows, i + 1, seen \cup {rows[i]}, Append(out, rows[i]))

load_and_clean_pharmacies(rows) == CleanFrom(rows, 1, {}, <<>>)

---------------------------------------------------------------------------
(* Inputs *)

SeqsUpTo(S, n) == UNION {[1..k -> S] : k \in 0..n}

\* longest claims / reverts file of a pipeline run
MaxFileLen == 2
\* longest list handed to process_file on its own
MaxRecords == 3
\* longest claims list and longest reverts list handed to the utils functions
\* and to calculate_metrics
MaxClaims == 3
MaxReverts == 2
\* most rows of claims_df handed to get_chain_recommendations
MaxRows == 4
\* most rows of claims_df handed to analyze_quantities
MaxQuantityRows == 6

IdA == "11111111-1111-4111-8111-111111111111"
IdB == "22222222-2222-4222-8222-222222222222"
IdR1 == "33333333-3333-4333-8333-333333333333"
IdR2 == "44444444-4444-4444-8444-444444444444"
Ndc1 == "00000000011"
Ndc2 == "00000000022"
Npi1 == "0000000001"
Npi2 == "0000000002"
Npi3 == "0000000003"
Npi4 == "0000000004"

Claim(id, ndc, npi, quantity, price, timestamp) ==
    [id |-> id, ndc |-> ndc, npi |-> npi, quantity |-> quantity,
     price |-> price, timestamp |-> timestamp]

Revert(id, claim_id, timestamp) ==
    [id |-> id, claim_id |-> claim_id, timestamp |-> timestamp]

Pharmacy(npi, chain) == [npi |-> PyStr(npi), chain |-> PyStr(chain)]

\* claims as they stand in a file: 10.00 for 2 and 20.00 for 4 of one drug at
\* one pharmacy, and a second record under the first id, for another drug at
\* another pharmacy and with a sub-cent price
RawA1 == Claim(PyStr(IdA), PyStr(Ndc1), PyStr(Npi1), PyInt(2), PyFloat(10000), PyStr(PaddedStamp))
RawB1 == Claim(PyStr(IdB), PyStr(Ndc1), PyStr(Npi1), PyFloat(4000), PyFloat(20000), PyStr(PaddedStamp))
RawA2 == Claim(PyStr(IdA), PyStr(Ndc2), PyStr(Npi2), PyInt(1), PyFloat(12345), PyStr(PaddedStamp))
RawB2 == Claim(PyStr(IdB), PyStr(Ndc2), PyStr(Npi1), PyInt(3), PyFloat(10000), PyStr(PaddedStamp))

\* two reverts of claim A and one of claim B
RawR1 == Revert(PyStr(IdR1), PyStr(IdA), PyStr(PaddedStamp))
RawR2 == Revert(PyStr(IdR2), PyStr(IdA), PyStr(PaddedStamp))
RawR3 == Revert(PyStr(IdR1), PyStr(IdB), PyStr(PaddedStamp))

Absent == [k |-> "absent", s |-> "", m |-> 0]

\* a dict from the values of its keys, without the keys marked Absent
MkDict(f) == [key \in {x \in DOMAIN f : f[x] # Absent} |-> f[key]]

\* the records handed to validate_claim_record
IdValues == {PyStr(IdA), PyStr("11111111111141118111111111111111"),
             PyStr("claim-1"), PyInt(7), Absent}
NdcValues == {PyStr(Ndc1), PyInt(11), Absent}
NpiValues == {PyStr(Npi1), PyNone}
QuantityValues == {PyInt(2), PyInt(0), PyInt(0 - 1), PyFloat(2000), PyFloat(2500),
                   PyFloat(0), PyFloat(0 - 500), PyStr("2"), Absent}
PriceValues == {PyFloat(10000), PyFloat(12345), PyFloat(0), PyFloat(0 - 1000),
                PyInt(10), PyInt(0 - 1), PyStr("10.00"), PyNone, Absent}
TimestampValues == {PyStr(PaddedStamp), PyStr(UnpaddedStamp), PyStr(OffsetStamp),
                    PyInt(1704), PyNone, Absent}

RawClaimRecords ==
    { MkDict(Claim(i, d, n, q, p, ts)) :
        i \in IdValues, d \in NdcValues, n \in NpiValues,
        q \in QuantityValues, p \in PriceValues, ts \in TimestampValues }

\* the records handed to validate_revert_record
RawRevertRecords ==
    { MkDict(Revert(i, c, ts)) :
        i \in IdValues, c \in IdValues, ts \in TimestampValues }

---------------------------------------------------------------------------
(* What the variables hold while a specification does not use them *)

ValidatorIdle == data = Idle /\ record = Idle /\ records = Idle
ListsIdle == pharmacies_data = <<>> /\ claims_data = <<>> /\ reverts_data = <<>>
MainIdle ==
    /\ folders = Idle
    /\ pharmacies_csv = <<>> /\ claims_files = <<>> /\ reverts_files = <<>>
    /\ todo = {} /\ unique_claims = <<>> /\ metrics = <<>> /\ output_file = Idle

validator_vars == <<data, record, records>>
lists_vars == <<pharmacies_data, claims_data, reverts_data>>
main_vars == <<folders, pharmacies_csv, claims_files, reverts_files, todo, unique_claims,
               metrics, output_file>>

---------------------------------------------------------------------------
(* SpecValidate: one call of a record validator on one record *)

InitValidate ==
    /\ \/ pc = "validate_claim_record" /\ data \in RawClaimRecords /\ record = Idle
       \/ pc = "validate_revert_record" /\ record \in RawRevertRecords /\ data = Idle
    /\ records = Idle
    /\ result = Idle
    /\ ListsIdle /\ MainIdle

ValidateClaim ==
    /\ pc = "validate_claim_record"
    /\ result' = validate_claim_record(data, claims_schema)
    /\ pc' = "returned_claim"
    /\ UNCHANGED <<validator_vars, lists_vars, main_vars>>

ValidateRevert ==
    /\ pc = "validate_revert_record"
    /\ result' = validate_revert_record(record)
    /\ pc' = "returned_revert"
    /\ UNCHANGED <<validator_vars, lists_vars, main_vars>>

NextValidate == ValidateClaim \/ ValidateRevert

SpecValidate == InitValidate /\ [][NextValidate]_vars

---------------------------------------------------------------------------
(* SpecProcessFile: one call of process_file on one file *)

\* records of a claims file: two valid ones, one the validator returns False
\* for (quantity 0), one it raises on (price is a string) and one it accepts
\* and fromisoformat then rejects (unpadded timestamp)
RawZeroQuantity == [RawB1 EXCEPT !["quantity"] = PyInt(0)]
RawStringPrice  == [RawB1 EXCEPT !["price"] = PyStr("10.00")]
RawUnpadded     == [RawB1 EXCEPT !["timestamp"] = PyStr(UnpaddedStamp)]
FileClaimRecords == {RawA1, RawB1, RawZeroQuantity, RawStringPrice, RawUnpadded}

\* records of a reverts file: two valid ones, one with a malformed id, one
\* whose timestamp is not a string, and one with an unpadded timestamp
RawBadRevertId   == [RawR1 EXCEPT !["id"] = PyStr("claim-1")]
RawIntRevertTime == [RawR1 EXCEPT !["timestamp"] = PyInt(1704)]
RawUnpaddedRevert == [RawR1 EXCEPT !["timestamp"] = PyStr(UnpaddedStamp)]
FileRevertRecords == {RawR1, RawR3, RawBadRevertId, RawIntRevertTime, RawUnpaddedRevert}

FilesOf(S, n) ==
    {JsonList(xs) : xs \in SeqsUpTo(S, n)} \cup {JsonDict(d) : d \in S} \cup {JsonInvalid}

InitProcessFile ==
    /\ \/ pc = "process_claims_file" /\ records \in FilesOf(FileClaimRecords, MaxRecords)
       \/ pc = "process_reverts_file" /\ records \in FilesOf(FileRevertRecords, MaxRecords)
    /\ data = Idle /\ record = Idle
    /\ result = Idle
    /\ ListsIdle /\ MainIdle

ProcessClaimsFile ==
    /\ pc = "process_claims_file"
    /\ result' = process_file_claims(records)
    /\ pc' = "returned_claims"
    /\ UNCHANGED <<validator_vars, lists_vars, main_vars>>

ProcessRevertsFile ==
    /\ pc = "process_reverts_file"
    /\ result' = process_file_reverts(records)
    /\ pc' = "returned_reverts"
    /\ UNCHANGED <<validator_vars, lists_vars, main_vars>>

NextProcessFile == ProcessClaimsFile \/ ProcessRevertsFile

SpecProcessFile == InitProcessFile /\ [][NextProcessFile]_vars

---------------------------------------------------------------------------
(* SpecUtils: one call of a function of utils.py on loaded records *)

\* claims and reverts as process_file returns them
LoadedClaims  == {ConvertTimestamp(c) : c \in {RawA1, RawB1, RawA2, RawB2}}
LoadedReverts == {ConvertTimestamp(r) : r \in {RawR1, RawR2, RawR3}}

PharmacyLists ==
    { <<>>,
      <<Pharmacy(Npi1, "alpha")>>,
      <<Pharmacy(Npi1, "alpha"), Pharmacy(Npi2, "beta")>>,
      <<Pharmacy(Npi1, "alpha"), Pharmacy(Npi1, "beta")>> }

InitUtils ==
    /\ pc = "call"
    /\ claims_data \in SeqsUpTo(LoadedClaims, MaxClaims)
    /\ pharmacies_data \in PharmacyLists
    /\ reverts_data \in SeqsUpTo(LoadedReverts, MaxReverts)
    /\ result = Idle
    /\ ValidatorIdle /\ MainIdle

FilterClaimsByPharmacies ==
    /\ pc = "call"
    /\ result' = filter_claims_by_pharmacies(claims_data, pharmacies_data)
    /\ pc' = "filter_claims_by_pharmacies"
    /\ UNCHANGED <<validator_vars, lists_vars, main_vars>>

FilterRevertsByClaims ==
    /\ pc = "call"
    /\ result' = filter_reverts_by_claims(reverts_data, claims_data)
    /\ pc' = "filter_reverts_by_claims"
    /\ UNCHANGED <<validator_vars, lists_vars, main_vars>>

RemoveDuplicateClaims ==
    /\ pc = "call"
    /\ result' = remove_duplicate_claims(claims_data)
    /\ pc' = "remove_duplicate_claims"
    /\ UNCHANGED <<validator_vars, lists_vars, main_vars>>

NextUtils == FilterClaimsByPharmacies \/ FilterRevertsByClaims \/ RemoveDuplicateClaims

SpecUtils == InitUtils /\ [][NextUtils]_vars

---------------------------------------------------------------------------
(* SpecMetrics: one call of calculate_metrics. Its second argument is a     *)
(* collection the claim ids are looked up in: a list of ids, a list of      *)
(* revert records as main passes it, or a mix.                              *)

RevertArguments == {PyStr(IdA), PyStr(IdB), ConvertTimestamp(RawR1)}

InitMetrics ==
    /\ pc = "call"
    /\ claims_data \in SeqsUpTo(LoadedClaims, MaxClaims)
    /\ reverts_data \in SeqsUpTo(RevertArguments, MaxReverts)
    /\ pharmacies_data = <<>>
    /\ result = Idle
    /\ ValidatorIdle /\ MainIdle

CalculateMetrics ==
    /\ pc = "call"
    /\ result' \in calculate_metrics(claims_data, reverts_data)
    /\ pc' = "calculate_metrics"
    /\ UNCHANGED <<validator_vars, lists_vars, main_vars>>

NextMetrics == CalculateMetrics

SpecMetrics == InitMetrics /\ [][NextMetrics]_vars

---------------------------------------------------------------------------
(* Spec: a run of main, from the loading of the three inputs to metrics.json *)

FileIds == {1, 2}

\* An input directory is missing, holds no file of the kind its loader globs
\* for (*.csv, *.json), or holds such files.
Folders == {"pharmacies", "claims", "reverts"}
FolderStates == {"missing", "empty", "files"}

InitMain ==
    /\ pc = "check_folders"
    /\ folders \in [Folders -> FolderStates]
    /\ IF folders["pharmacies"] = "files"
       THEN pharmacies_csv \in { <<Pharmacy(Npi1, "alpha")>>,
                                 <<Pharmacy(Npi1, "alpha"), Pharmacy(Npi2, "beta")>>,
                                 <<Pharmacy(Npi1, "alpha"), Pharmacy(Npi1, "alpha")>> }
       ELSE pharmacies_csv = <<>>
    /\ IF folders["claims"] = "files"
       THEN claims_files \in [FileIds -> {JsonList(xs) :
                                       xs \in SeqsUpTo({RawA1, RawB1, RawA2}, MaxFileLen)}]
       ELSE claims_files = <<>>
    /\ IF folders["reverts"] = "files"
       THEN reverts_files \in [{1} -> {JsonList(xs) :
                                       xs \in SeqsUpTo({RawR1, RawR2}, MaxFileLen)}]
       ELSE reverts_files = <<>>
    /\ todo = {}
    /\ ListsIdle
    /\ unique_claims = <<>> /\ metrics = <<>> /\ output_file = Idle
    /\ result = Idle
    /\ ValidatorIdle

\* the os.path.isdir checks at the head of main (and of the __main__ block):
\* sys.exit(1) when an input directory does not exist
CheckFolders ==
    /\ pc = "check_folders"
    /\ pc' = IF \E d \in Folders : folders[d] = "missing" THEN "exit" ELSE "load_pharmacies"
    /\ UNCHANGED <<validator_vars, result, lists_vars, main_vars>>

\* pharmacies_data = load_and_clean_pharmacies(...): with no CSV file in the
\* directory the loader logs an error and returns the empty list
LoadPharmacies ==
    /\ pc = "load_pharmacies"
    /\ pharmacies_data' = load_and_clean_pharmacies(pharmacies_csv)
    /\ pc' = "submit_claims"
    /\ UNCHANGED <<validator_vars, result, folders, pharmacies_csv, claims_files, reverts_files,
                   todo, claims_data, reverts_data, unique_claims, metrics, output_file>>

\* load_and_validate_json_data up to the executor: ValueError when glob finds
\* no *.json (it leaves main and the __main__ block exits with status 1),
\* else one process_file task per file
SubmitClaims ==
    /\ pc = "submit_claims"
    /\ IF folders["claims"] = "empty"
       THEN pc' = "exit" /\ todo' = todo
       ELSE pc' = "load_claims" /\ todo' = DOMAIN claims_files
    /\ UNCHANGED <<validator_vars, result, folders, pharmacies_csv, claims_files, reverts_files,
                   lists_vars, unique_claims, metrics, output_file>>

\* as_completed yields the future of file f, whichever finished next, and its
\* records are appended to valid_data
ClaimsFileCompleted(f) ==
    /\ pc = "load_claims"
    /\ f \in todo
    /\ claims_data' = claims_data \o process_file_claims(claims_files[f])
    /\ todo' = todo \ {f}
    /\ pc' = IF todo = {f} THEN "submit_reverts" ELSE pc
    /\ UNCHANGED <<validator_vars, result, folders, pharmacies_csv, claims_files, reverts_files,
                   pharmacies_data, reverts_data, unique_claims, metrics, output_file>>

\* load_and_validate_revert_json_data up to the executor
SubmitReverts ==
    /\ pc = "submit_reverts"
    /\ IF folders["reverts"] = "empty"
       THEN pc' = "exit" /\ todo' = todo
       ELSE pc' = "load_reverts" /\ todo' = DOMAIN reverts_files
    /\ UNCHANGED <<validator_vars, result, folders, pharmacies_csv, claims_files, reverts_files,
                   lists_vars, unique_claims, metrics, output_file>>

RevertsFileCompleted(f) ==
    /\ pc = "load_reverts"
    /\ f \in todo
    /\ reverts_data' = reverts_data \o process_file_reverts(reverts_files[f])
    /\ todo' = todo \ {f}
    /\ pc' = IF todo = {f} THEN "filter_claims" ELSE pc
    /\ UNCHANGED <<validator_vars, result, folders, pharmacies_csv, claims_files, reverts_files,
                   pharmacies_data, claims_data, unique_claims, metrics, output_file>>

\* claims_data = filter_claims_by_pharmacies(claims_data, pharmacies_data)
FilterClaims ==
    /\ pc = "filter_claims"
    /\ claims_data' = filter_claims_by_pharmacies(claims_data, pharmacies_data)
    /\ pc' = "remove_duplicates"
    /\ UNCHANGED <<validator_vars, result, folders, pharmacies_csv, claims_files, reverts_files,
                   todo, pharmacies_data, reverts_data, unique_claims, metrics, output_file>>

\* unique_claims = remove_duplicate_claims(claims_data)
RemoveDuplicates ==
    /\ pc = "remove_duplicates"
    /\ unique_claims' = remove_duplicate_claims(claims_data)
    /\ pc' = "filter_reverts"
    /\ UNCHANGED <<validator_vars, result, folders, pharmacies_csv, claims_files, reverts_files,
                   todo, lists_vars, metrics, output_file>>

\* reverts_data = filter_reverts_by_claims(reverts_data, claims_data)
FilterReverts ==
    /\ pc = "filter_reverts"
    /\ reverts_data' = filter_reverts_by_claims(reverts_data, claims_data)
    /\ pc' = "calculate_metrics"
    /\ UNCHANGED <<validator_vars, result, folders, pharmacies_csv, claims_files, reverts_files,
                   todo, pharmacies_data, claims_data, unique_claims, metrics, output_file>>

\* metrics = calculate_metrics(unique_claims, reverts_data)
MainCalculateMetrics ==
    /\ pc = "calculate_metrics"
    /\ metrics' \in calculate_metrics(unique_claims, reverts_data)
    /\ pc' = "save_output"
    /\ UNCHANGED <<validator_vars, result, folders, pharmacies_csv, claims_files, reverts_files,
                   todo, lists_vars, unique_claims, output_file>>

\* save_output(metrics, 'metrics.json', output_path)
SaveOutput ==
    /\ pc = "save_output"
    /\ output_file' = metrics
    /\ pc' = "finished"
    /\ UNCHANGED <<validator_vars, result, folders, pharmacies_csv, claims_files, reverts_files,
                   todo, lists_vars, unique_claims, metrics>>

Next ==
    \/ CheckFolders
    \/ LoadPharmacies
    \/ SubmitClaims
    \/ \E f \in FileIds : ClaimsFileCompleted(f)
    \/ SubmitReverts
    \/ \E f \in FileIds : RevertsFileCompleted(f)
    \/ FilterClaims
    \/ RemoveDuplicates
    \/ FilterReverts
    \/ MainCalculateMetrics
    \/ SaveOutput

Spec == InitMain /\ [][Next]_vars

---------------------------------------------------------------------------
(* SpecChains: one call of get_chain_recommendations(claims_df, pharmacies_df) *)

\* Rows of claims_df. Unit prices 3, 2, 5 and 1 for the first drug at three
\* providers and 0.5 at a fourth (the lowest unit price, and in no pharmacy
\* file), and one row of a second drug. All unit prices are multiples of 0.5,
\* so the float divisions and sums the code makes are exact.
ChainRow(ndc, npi, quantity, price) ==
    ConvertTimestamp(Claim(PyStr(IdA), PyStr(ndc), PyStr(npi), PyInt(quantity),
                           PyFloat(price), PyStr(PaddedStamp)))
ChainRows ==
    { ChainRow(Ndc1, Npi1, 2, 6000), ChainRow(Ndc1, Npi2, 1, 2000),
      ChainRow(Ndc1, Npi3, 1, 5000), ChainRow(Ndc1, Npi1, 2, 2000),
      ChainRow(Ndc1, Npi4, 2, 1000), ChainRow(Ndc2, Npi2, 1, 3000) }

\* pharmacies_df: three chains; two providers of one chain; a provider listed
\* under two chains
PharmacyFrames ==
    { <<Pharmacy(Npi1, "alpha"), Pharmacy(Npi2, "beta"), Pharmacy(Npi3, "gamma")>>,
      <<Pharmacy(Npi1, "beta"), Pharmacy(Npi2, "beta"), Pharmacy(Npi3, "alpha")>>,
      <<Pharmacy(Npi1, "gamma"), Pharmacy(Npi1, "alpha"), Pharmacy(Npi2, "beta")>> }

InitChains ==
    /\ pc = "call"
    /\ claims_data \in SeqsUpTo(ChainRows, MaxRows)
    /\ pharmacies_data \in PharmacyFrames
    /\ reverts_data = <<>>
    /\ result = Idle
    /\ ValidatorIdle /\ MainIdle

GetChainRecommendations ==
    /\ pc = "call"
    /\ result' \in get_chain_recommendations(claims_data, pharmacies_data)
    /\ pc' = "get_chain_recommendations"
    /\ UNCHANGED <<validator_vars, lists_vars, main_vars>>

NextChains == GetChainRecommendations

SpecChains == InitChains /\ [][NextChains]_vars

---------------------------------------------------------------------------
(* SpecQuantities: one call of analyze_quantities(claims_df) *)

\* Rows of claims_df: six quantities of the first drug (one more than the
\* report keeps) and one row of a second drug.
QuantityRow(ndc, quantity) ==
    ConvertTimestamp(Claim(PyStr(IdA), PyStr(ndc), PyStr(Npi1), PyInt(quantity),
                           PyFloat(10000), PyStr(PaddedStamp)))
QuantityRows ==
    { QuantityRow(Ndc1, q) : q \in {10, 20, 30, 60, 90, 120} }
        \cup { QuantityRow(Ndc2, 30) }

InitQuantities ==
    /\ pc = "call"
    /\ claims_data \in SeqsUpTo(QuantityRows, MaxQuantityRows)
    /\ pharmacies_data = <<>>
    /\ reverts_data = <<>>
    /\ result = Idle
    /\ ValidatorIdle /\ MainIdle

AnalyzeQuantities ==
    /\ pc = "call"
    /\ result' = analyze_quantities(claims_data)
    /\ pc' = "analyze_quantities"
    /\ UNCHANGED <<validator_vars, lists_vars, main_vars>>

NextQuantities == AnalyzeQuantities

SpecQuantities == InitQuantities /\ [][NextQuantities]_vars

---------------------------------------------------------------------------
(* Properties *)

\* the k-th smallest element of a set of indices, and the subsequence of xs
\* at a set of indices
Nth(I, k) == CHOOSE i \in I : Cardinality({j \in I : j <= i}) = k
SubseqAt(xs, I) == [k \in 1..Cardinality(I) |-> xs[Nth(I, k)]]

RECURSIVE SumPricesAt(_, _)
SumPricesAt(cs, I) ==
    IF I = {} THEN 0
    ELSE LET i == CHOOSE x \in I : TRUE
         IN  cs[i]["price"].m + SumPricesAt(cs, I \ {i})

RECURSIVE SumFills(_, _)
SumFills(res, k) == IF k = 0 THEN 0 ELSE SumFills(res, k - 1) + res[k].fills

\* the claims of cs under the key of a metric record
ClaimsAt(cs, rec) ==
    {i \in 1..Len(cs) : cs[i]["npi"] = rec.npi /\ cs[i]["ndc"] = rec.ndc}

MetricsComputed == pc \in {"save_output", "finished"}

\* C1: after a run of main, the 'reverted' value of every metric record is the
\* number of deduplicated claims of its (npi, ndc) key whose id is the claim_id
\* of at least one retained revert.
C1_RevertedCountsRevertedClaims ==
    MetricsComputed =>
        \A k \in 1..Len(metrics) :
            metrics[k].reverted =
                Cardinality({i \in ClaimsAt(unique_claims, metrics[k]) :
                    \E j \in 1..Len(reverts_data) :
                        reverts_data[j]["claim_id"] = unique_claims[i]["id"]})

\* C2: remove_duplicate_claims(xs) is the subsequence of xs at the first
\* occurrence of each id, and applying it to its own result changes nothing.
FirstOccurrences(cs) ==
    {i \in 1..Len(cs) : \A j \in 1..(i - 1) : cs[j]["id"] # cs[i]["id"]}

\* C2: the result is claims_data at its first occurrences, and deduplicating
\* the result again returns it unchanged.
C2_DedupKeepsFirstOccurrences ==
    pc = "remove_duplicate_claims" =>
        /\ result = SubseqAt(claims_data, FirstOccurrences(claims_data))
        /\ remove_duplicate_claims(result) = result

C2_Witness ==
    /\ pc = "remove_duplicate_claims"
    /\ Len(claims_data) = 3 /\ Len(result) = 2
    /\ claims_data[1]["id"] = claims_data[3]["id"]
    /\ claims_data[1] # claims_data[3]
    /\ result[1] = claims_data[1]

\* C3: filter_claims_by_pharmacies returns the subsequence of the claims whose
\* npi is the npi of some pharmacy row, filter_reverts_by_claims the
\* subsequence of the reverts whose claim_id is the id of some claim; the
\* calls leave their arguments as they were.
MatchedClaims(cs, ps) ==
    {i \in 1..Len(cs) : \E j \in 1..Len(ps) : ps[j]["npi"] = cs[i]["npi"]}
MatchedReverts(rs, cs) ==
    {i \in 1..Len(rs) : \E j \in 1..Len(cs) : cs[j]["id"] = rs[i]["claim_id"]}

\* C3, the returned lists: each is the input at the matching positions.
C3_FilterResults ==
    /\ pc = "filter_claims_by_pharmacies" =>
          result = SubseqAt(claims_data, MatchedClaims(claims_data, pharmacies_data))
    /\ pc = "filter_reverts_by_claims" =>
          result = SubseqAt(reverts_data, MatchedReverts(reverts_data, claims_data))

\* C3: the returned lists are the matching subsequences, always, and no step
\* changes the argument lists.
C3_FiltersKeepExactlyTheMatching ==
    /\ []C3_FilterResults
    /\ [][/\ claims_data' = claims_data
          /\ pharmacies_data' = pharmacies_data
          /\ reverts_data' = reverts_data]_vars

C3_Witness ==
    /\ pc = "filter_claims_by_pharmacies"
    /\ Len(claims_data) = 3 /\ Len(result) = 2
    /\ result[1] = result[2]
    /\ claims_data[2] # result[1]

\* C4: validate_claim_record returns True for every valid claim (price given
\* as a float or as an integer) and False for every claim with quantity <= 0.
AllClaimKeys == {"id", "ndc", "npi", "quantity", "price", "timestamp"}

IsValidClaim(d) ==
    /\ DOMAIN d = AllClaimKeys
    /\ d["id"].k = "str" /\ d["ndc"].k = "str" /\ d["npi"].k = "str"
    /\ IsNumber(d["quantity"]) /\ d["quantity"].m % 1000 = 0 /\ d["quantity"].m > 0
    /\ IsNumber(d["price"]) /\ d["price"].m >= 0
    /\ d["timestamp"] = PyStr(PaddedStamp)

\* C4: a valid claim returns True; a claim with quantity <= 0 returns False.
C4_AcceptsValidRejectsNonPositiveQuantity ==
    pc = "returned_claim" =>
        /\ IsValidClaim(data) => result = "True"
        /\ ("quantity" \in DOMAIN data /\ IsNumber(data["quantity"])
                /\ data["quantity"].m <= 0) => result = "False"

\* C5: a claim whose id is not a canonical token fails claim validation, and a
\* revert whose id or claim_id is not a canonical token fails revert validation.
IsCanonicalToken(d, key) ==
    key \in DOMAIN d /\ d[key].k = "str" /\ d[key].s \in CanonicalUuids

\* C5: no record with a non-canonical identifier is accepted.
C5_MalformedIdentifiersFail ==
    /\ (pc = "returned_claim" /\ ~IsCanonicalToken(data, "id")) => result # "True"
    /\ (pc = "returned_revert"
          /\ (~IsCanonicalToken(record, "id") \/ ~IsCanonicalToken(record, "claim_id")))
       => result # "True"

\* C6: the validators return True or False for every record and never raise.
C6_ValidatorsNeverRaise ==
    pc \in {"returned_claim", "returned_revert"} => result \in {"True", "False"}

\* C7: for a readable file holding a list, process_file returns the records
\* that satisfy the schema, in file order, whatever other records the file holds.
AcceptedClaims(xs) ==
    {i \in 1..Len(xs) : validate_claim_record(xs[i], claims_schema) = "True"}
AcceptedReverts(xs) ==
    {i \in 1..Len(xs) : validate_revert_record(xs[i]) = "True"}
Converted(xs, I) == [k \in 1..Cardinality(I) |-> ConvertTimestamp(xs[Nth(I, k)])]

\* C7: the list returned is the accepted records of the file, converted, in
\* file order.
C7_ViolationDropsOnlyTheRecord ==
    /\ (pc = "returned_claims" /\ records.json = "list") =>
          result = Converted(records.items, AcceptedClaims(records.items))
    /\ (pc = "returned_reverts" /\ records.json = "list") =>
          result = Converted(records.items, AcceptedReverts(records.items))

\* C8: calculate_metrics emits one record per (npi, ndc) pair of the claims and
\* no other; fills is the number of claims of the pair, the fills add up to
\* the number of claims, and 0 <= reverted <= fills.
C8_OneRecordPerPair ==
    /\ {<<result[k].npi, result[k].ndc>> : k \in 1..Len(result)}
         = {<<claims_data[i]["npi"], claims_data[i]["ndc"]>> : i \in 1..Len(claims_data)}
    /\ \A k1, k2 \in 1..Len(result) :
          (result[k1].npi = result[k2].npi /\ result[k1].ndc = result[k2].ndc) => k1 = k2
    /\ \A k \in 1..Len(result) :
          /\ result[k].fills = Cardinality(ClaimsAt(claims_data, result[k]))
          /\ result[k].fills >= 1
          /\ 0 <= result[k].reverted /\ result[k].reverted <= result[k].fills
    /\ SumFills(result, Len(result)) = Len(claims_data)

\* C8 as stated: ... and total_price is the sum of the prices of those claims.
C8_TotalPriceIsTheSum ==
    pc = "calculate_metrics" =>
        /\ C8_OneRecordPerPair
        /\ \A k \in 1..Len(result) :
              result[k].total_price
                  = SumPricesAt(claims_data, ClaimsAt(claims_data, result[k]))

\* C8 as amended: ... and total_price is that sum rounded to 2 decimals, a
\* whole number of cents at most half a cent away from the sum.
C8_TotalPriceIsTheRoundedSum ==
    pc = "calculate_metrics" =>
        /\ C8_OneRecordPerPair
        /\ \A k \in 1..Len(result) :
              LET total == SumPricesAt(claims_data, ClaimsAt(claims_data, result[k]))
              IN  /\ result[k].total_price % 10 = 0
                  /\ result[k].total_price - total <= 5
                  /\ total - result[k].total_price <= 5

C8_Witness ==
    /\ pc = "calculate_metrics"
    /\ Len(claims_data) = 3 /\ Len(result) = 2
    /\ \E k \in 1..2 : result[k].fills = 2 /\ result[k].reverted = 1
    /\ \E k \in 1..2 :
          result[k].total_price # SumPricesAt(claims_data, ClaimsAt(claims_data, result[k]))

\* C9: get_chain_recommendations lists, for every drug with a claim whose npi
\* is in the pharmacy table, min(2, number of chains of the drug) chains in
\* ascending order of their average unit price, no chain left out being
\* cheaper than a listed one; the averages are those of the joined rows only.
JoinedPairs ==
    {p \in (1..Len(claims_data)) \X (1..Len(pharmacies_data)) :
        claims_data[p[1]]["npi"] = pharmacies_data[p[2]]["npi"]}
PairsOfDrug(d) == {p \in JoinedPairs : claims_data[p[1]]["ndc"].s = d}
ChainsOfDrug(d) == {pharmacies_data[p[2]]["chain"].s : p \in PairsOfDrug(d)}
PairsOfChain(d, c) == {p \in PairsOfDrug(d) : pharmacies_data[p[2]]["chain"].s = c}

\* the sum of price / quantity over a set of joined pairs, as a fraction
RECURSIVE SumUnitOver(_)
SumUnitOver(P) ==
    IF P = {} THEN [num |-> 0, den |-> 1]
    ELSE LET p == CHOOSE x \in P : TRUE
             rest == SumUnitOver(P \ {p})
             q == claims_data[p[1]]["quantity"].m \div 1000
         IN  [num |-> rest.num * q + claims_data[p[1]]["price"].m * rest.den,
              den |-> rest.den * q]

AverageOf(d, c) ==
    LET total == SumUnitOver(PairsOfChain(d, c))
    IN  [num |-> total.num, den |-> total.den * Cardinality(PairsOfChain(d, c))]

Cheaper(a, b) == a.num * b.den < b.num * a.den

\* C9: one entry per joined drug, its chains the (at most 2) cheapest by
\* average unit price in ascending order, avg_price the rounded average.
C9_TwoCheapestChainsPerDrug ==
    pc = "get_chain_recommendations" =>
        /\ {result[k].ndc : k \in 1..Len(result)}
              = {claims_data[p[1]]["ndc"].s : p \in JoinedPairs}
        /\ \A k1, k2 \in 1..Len(result) : result[k1].ndc = result[k2].ndc => k1 = k2
        /\ \A k \in 1..Len(result) :
              LET d == result[k].ndc
                  listed == result[k].chain
                  n == Len(listed)
                  names == {listed[i].name : i \in 1..n}
              IN  /\ n <= 2
                  /\ n = (IF Cardinality(ChainsOfDrug(d)) < 2
                          THEN Cardinality(ChainsOfDrug(d)) ELSE 2)
                  /\ names \subseteq ChainsOfDrug(d)
                  /\ Cardinality(names) = n
                  /\ \A i \in 1..(n - 1) :
                        ~Cheaper(AverageOf(d, listed[i + 1].name), AverageOf(d, listed[i].name))
                  /\ \A c \in ChainsOfDrug(d) \ names : \A i \in 1..n :
                        ~Cheaper(AverageOf(d, c), AverageOf(d, listed[i].name))
                  /\ \A i \in 1..n :
                        LET avg == AverageOf(d, listed[i].name) IN
                        /\ 2 * (listed[i].avg_price * avg.den - avg.num) <= 10 * avg.den
                        /\ 2 * (avg.num - listed[i].avg_price * avg.den) <= 10 * avg.den

C9_Witness ==
    /\ pc = "get_chain_recommendations"
    /\ \E i \in 1..Len(claims_data) : \A p \in JoinedPairs : p[1] # i
    /\ \E k \in 1..Len(result) :
          /\ Cardinality(ChainsOfDrug(result[k].ndc)) = 3
          /\ Len(result[k].chain) = 2
          /\ Cheaper(AverageOf(result[k].ndc, result[k].chain[1].name),
                     AverageOf(result[k].ndc, result[k].chain[2].name))

\* C10: analyze_quantities lists, for every drug of the claims, min(5, number
\* of distinct quantities) distinct quantities of the drug in non-increasing
\* order of frequency, no quantity left out being more frequent than a listed
\* one; quantities 30 x 3, 60 x 2, 90 x 1 give 30, 60, 90.
Frequency(d, q) ==
    Cardinality({i \in 1..Len(claims_data) :
        claims_data[i]["ndc"].s = d /\ claims_data[i]["quantity"].m = q * 1000})
QuantitiesOfDrug(d) ==
    {claims_data[i]["quantity"].m \div 1000 :
        i \in {j \in 1..Len(claims_data) : claims_data[j]["ndc"].s = d}}

\* C10: one entry per drug, its quantities the (at most 5) most frequent
\* in non-increasing order of frequency.
C10_MostFrequentQuantitiesPerDrug ==
    pc = "analyze_quantities" =>
        /\ {result[k].ndc : k \in 1..Len(result)}
              = {claims_data[i]["ndc"].s : i \in 1..Len(claims_data)}
        /\ \A k1, k2 \in 1..Len(result) : result[k1].ndc = result[k2].ndc => k1 = k2
        /\ \A k \in 1..Len(result) :
              LET d == result[k].ndc
                  listed == result[k].most_prescribed_quantity
                  n == Len(listed)
                  shown == {listed[i] : i \in 1..n}
              IN  /\ n <= 5
                  /\ n = (IF Cardinality(QuantitiesOfDrug(d)) < 5
                          THEN Cardinality(QuantitiesOfDrug(d)) ELSE 5)
                  /\ shown \subseteq QuantitiesOfDrug(d)
                  /\ Cardinality(shown) = n
                  /\ \A i \in 1..(n - 1) :
                        Frequency(d, listed[i]) >= Frequency(d, listed[i + 1])
                  /\ \A q \in QuantitiesOfDrug(d) \ shown : \A i \in 1..n :
                        Frequency(d, q) <= Frequency(d, listed[i])
                  /\ (QuantitiesOfDrug(d) = {30, 60, 90} /\ Frequency(d, 30) = 3
                         /\ Frequency(d, 60) = 2 /\ Frequency(d, 90) = 1)
                     => listed = <<30, 60, 90>>

C10_Witness ==
    /\ pc = "analyze_quantities"
    /\ Len(claims_data) = 6
    /\ QuantitiesOfDrug(Ndc1) = {30, 60, 90}
    /\ Frequency(Ndc1, 30) = 3 /\ Frequency(Ndc1, 60) = 2 /\ Frequency(Ndc1, 90) = 1
    /\ claims_data[1]["quantity"] = PyInt(90)
    /\ result = <<[ndc |-> Ndc1, most_prescribed_quantity |-> <<30, 60, 90>>]>>

\* the stages of main that filter, deduplicate or aggregate records, and the
\* positions after them
ProcessingStarted ==
    pc \in {"remove_duplicates", "filter_reverts", "calculate_metrics",
            "save_output", "finished"}

\* C11: when one of the three input directories is missing or holds no input
\* file, the run never filters, deduplicates or aggregates a record and never
\* writes the metrics output.
C11_ConfigurationFailureAbortsBeforeProcessing ==
    (\E d \in Folders : folders[d] # "files")
        => ~ProcessingStarted /\ output_file = Idle

\* the first row of the input claims that joins chain c for drug d
FirstRow(d, c) ==
    LET rows == {p[1] : p \in PairsOfChain(d, c)}
    IN  CHOOSE i \in rows : \A j \in rows : i <= j

SameAverage(d, c1, c2) ==
    /\ ~Cheaper(AverageOf(d, c1), AverageOf(d, c2))
    /\ ~Cheaper(AverageOf(d, c2), AverageOf(d, c1))

Listed(listed, c) == \E i \in 1..Len(listed) : listed[i].name = c
ListedBefore(listed, c1, c2) ==
    \E i, j \in 1..Len(listed) : i < j /\ listed[i].name = c1 /\ listed[j].name = c2

\* C12 as stated: of two chains of a drug with equal average unit price, the
\* one whose first claim row comes earlier in the input claims is listed
\* first, and is the one kept when the tie is at the cut-off.
C12_TiesInRowEncounterOrder ==
    pc = "get_chain_recommendations" =>
        \A k \in 1..Len(result) :
            LET d == result[k].ndc
                listed == result[k].chain
            IN  \A c1, c2 \in ChainsOfDrug(d) :
                    (/\ SameAverage(d, c1, c2)
                     /\ FirstRow(d, c1) < FirstRow(d, c2)
                     /\ Listed(listed, c2))
                        => ListedBefore(listed, c1, c2)

\* C12 as amended: of two chains of a drug with equal average unit price, the
\* one whose name sorts first is listed first, and is the one kept when the
\* tie is at the cut-off.
C12_TiesInChainNameOrder ==
    pc = "get_chain_recommendations" =>
        \A k \in 1..Len(result) :
            LET d == result[k].ndc
                listed == result[k].chain
            IN  \A c1, c2 \in ChainsOfDrug(d) :
                    (/\ SameAverage(d, c1, c2)
                     /\ StrLess(c1, c2)
                     /\ Listed(listed, c2))
                        => ListedBefore(listed, c1, c2)

\* a tie at the cut-off: the second entry and an omitted chain have the same
\* average, and the omitted chain's first claim row is the earlier one
C12_Witness ==
    /\ pc = "get_chain_recommendations"
    /\ \E k \in 1..Len(result) :
          LET d == result[k].ndc
              listed == result[k].chain
          IN  /\ Len(listed) = 2
              /\ \E c \in ChainsOfDrug(d) :
                    /\ ~Listed(listed, c)
                    /\ SameAverage(d, listed[2].name, c)
                    /\ StrLess(listed[2].name, c)
                    /\ FirstRow(d, c) < FirstRow(d, listed[2].name)

\* the merged claims, and the records main computes from them, when the
\* loading tasks complete in the order of the files
MergedInFileOrder ==
    process_file_claims(claims_files[1]) \o process_file_claims(claims_files[2])
MetricsInFileOrder ==
    LET filtered == filter_claims_by_pharmacies(MergedInFileOrder, pharmacies_data)
        reverts  == filter_reverts_by_claims(process_file_reverts(reverts_files[1]), filtered)
    IN  calculate_metrics(remove_duplicate_claims(filtered), reverts)

Occurrences(xs, x) == Cardinality({i \in 1..Len(xs) : xs[i] = x})
SameMultiset(xs, ys) ==
    /\ Len(xs) = Len(ys)
    /\ \A i \in 1..Len(xs) : Occurrences(xs, xs[i]) = Occurrences(ys, xs[i])
RecordsOf(xs) == {xs[i] : i \in 1..Len(xs)}

ClaimsLoaded == pc \in {"submit_reverts", "load_reverts", "filter_claims"}

\* the merged list of claims is the same multiset for every completion order
MergedClaimsIndependentOfOrder ==
    ClaimsLoaded => SameMultiset(claims_data, MergedInFileOrder)

\* C13: for fixed input files, whatever the order in which the per-file
\* loading tasks complete, the merged claims are the same multiset of valid
\* records and the set of metric records computed after filtering and
\* deduplication is the same.
C13_ResultIndependentOfCompletionOrder ==
    (\A d \in Folders : folders[d] = "files") =>
        /\ MergedClaimsIndependentOfOrder
        /\ MetricsComputed =>
              RecordsOf(metrics) \in {RecordsOf(m) : m \in MetricsInFileOrder}

===========================================================================
